---------------------------- MODULE Spec2Model ----------------------------
(***************************************************************************)
(* Model of the two trend-backtesting scripts                              *)
(*   .github/workflows/backup.py                   (EMA/MA stacking rule)  *)
(*   .github/workflows/binance_ma_crossover_notify.py (multi-oscillator)   *)
(* A data frame is a function from bar index to a row of column values.    *)
(* Prices and indicator values are integers; NaN is a distinguished value  *)
(* on which every comparison is false, as for IEEE floats in Python.       *)
(***************************************************************************)
EXTENDS Integers, Sequences, FiniteSets, TLC

\* ------------------------------------------------------------------ bounds
MaxBars == 4          \* bars simulated after the warm-up
NumCoins == 2         \* length of the COINS list in the model
MaxTrades == 3        \* longest list of trades handed to format_backtest_summary

\* --------------------------------------------------------------- constants
WARMUP == 200         \* first index classified by backtest: range(200, len(df))
LEVERAGE == 10
NumIntervals == 3     \* len(INTERVALS)
DAYS == 4             \* timedelta(days=4)

NaN == -999           \* the undefined float of a rolling window that is not full
NONE == "None"
UP == "uptrend"
DOWN == "downtrend"
END == "end"
STACK == "stack"      \* backup.py
OSC == "osc"          \* binance_ma_crossover_notify.py

\* closes of the rows fed to the simulation
Prices == {100, 101}

\* ------------------------------------------------- float comparisons (NaN)
GT(a, b) == a # NaN /\ b # NaN /\ a > b
LT(a, b) == a # NaN /\ b # NaN /\ a < b
LE(a, b) == a # NaN /\ b # NaN /\ a <= b
\* Python's builtin min/max of two arguments: the first one is kept unless
\* the second compares strictly smaller (larger).
PyMin(a, b) == IF LT(b, a) THEN b ELSE a
PyMax(a, b) == IF GT(b, a) THEN b ELSE a

\* ------------------------------------------------------------ trend logic
StackUp_nonstrict(r) ==
    /\ LE(r.close, r.EMA200) /\ LE(r.EMA8, r.close) /\ LE(r.EMA13, r.EMA8)
    /\ LE(r.EMA21, r.EMA13) /\ LE(r.EMA50, r.EMA21) /\ LE(r.MA50, r.EMA50)
    /\ LE(r.close, r.MA200)

\* backup.py: one bar of the stack, E > cp > A > B > C > D > MA50, cp < MA200
StackUp(r) ==
    /\ GT(r.EMA200, r.close) /\ GT(r.close, r.EMA8) /\ GT(r.EMA8, r.EMA13)
    /\ GT(r.EMA13, r.EMA21) /\ GT(r.EMA21, r.EMA50) /\ GT(r.EMA50, r.MA50)
    /\ LT(r.close, r.MA200)

StackDown(r) ==
    /\ LT(r.EMA200, r.close) /\ LT(r.close, r.EMA8) /\ LT(r.EMA8, r.EMA13)
    /\ LT(r.EMA13, r.EMA21) /\ LT(r.EMA21, r.EMA50) /\ LT(r.EMA50, r.MA50)
    /\ GT(r.close, r.MA200)

\* analyze_trend(df.iloc[:k+1]): the window ends at bar k and has k+1 rows
analyze_trend_1bar(d, k) ==
    IF k + 1 < 2 THEN NONE
    ELSE IF StackUp(d[k]) THEN UP
    ELSE IF StackDown(d[k]) THEN DOWN
    ELSE NONE

analyze_trend(d, k) ==
    IF k + 1 < 2 THEN NONE
    ELSE IF StackUp(d[k]) /\ StackUp(d[k-1]) THEN UP
    ELSE IF StackDown(d[k]) /\ StackDown(d[k-1]) THEN DOWN
    ELSE NONE

Between(lo, hi, val) == LE(PyMin(lo, hi), val) /\ LE(val, PyMax(lo, hi))

is_coin_eligible(last) ==
    LET key_values == <<last.EMA8, last.EMA13, last.EMA21, last.EMA50, last.close>>
        pairs == {<<last.MA50, last.MA200>>, <<last.MA50, last.EMA200>>,
                  <<last.MA200, last.EMA200>>}
        hit(val) == \E p \in pairs : Between(p[1], p[2], val)
        count == Cardinality({x \in 1..5 : hit(key_values[x])})
    IN count >= 2

\* the three orderings identify_trend tests on the last row, and the squeeze
kdj_up(last) == GT(last.J, last.D) /\ GT(last.D, last.K)
kdj_down(last) == GT(last.K, last.D) /\ GT(last.D, last.J)
rsi_up(last) == GT(last.RSI_5, last.RSI_13) /\ GT(last.RSI_13, last.RSI_21)
rsi_down(last) == GT(last.RSI_21, last.RSI_13) /\ GT(last.RSI_13, last.RSI_5)

wr_up_inner_ge(last) ==
    /\ GT(last.WR_8, last.WR_13)
    /\ LE(last.WR_50, last.WR_13) /\ LE(last.WR_200, last.WR_50)

wr_up(last) ==
    GT(last.WR_8, last.WR_13) /\ GT(last.WR_13, last.WR_50) /\ GT(last.WR_50, last.WR_200)

wr_down_ge(last) ==
    /\ LE(last.WR_50, last.WR_200) /\ LE(last.WR_13, last.WR_50)
    /\ LE(last.WR_8, last.WR_13)

wr_down(last) ==
    GT(last.WR_200, last.WR_50) /\ GT(last.WR_50, last.WR_13) /\ GT(last.WR_13, last.WR_8)

wr_8_13_between(last) ==
    /\ Between(last.WR_50, last.WR_200, last.WR_8)
    /\ Between(last.WR_50, last.WR_200, last.WR_13)

identify_trend_ungated(d, k) ==
    LET last == d[k]
    IN IF k + 1 < 1 THEN NONE
       ELSE IF wr_8_13_between(last) THEN END
       ELSE IF kdj_up(last) /\ rsi_up(last) /\ wr_up(last) THEN UP
       ELSE IF kdj_down(last) /\ rsi_down(last) /\ wr_down(last) THEN DOWN
       ELSE NONE

\* identify_trend(df.iloc[:k+1])
identify_trend(d, k) ==
    LET last == d[k]
    IN IF k + 1 < 1 THEN NONE
       ELSE IF ~is_coin_eligible(last) THEN NONE
       ELSE IF wr_8_13_between(last) THEN END
       ELSE IF kdj_up(last) /\ rsi_up(last) /\ wr_up(last) THEN UP
       ELSE IF kdj_down(last) /\ rsi_down(last) /\ wr_down(last) THEN DOWN
       ELSE NONE

\* the classifier each script's backtest calls on the window ending at bar k
Verdict(v, d, k) == IF v = STACK THEN analyze_trend(d, k) ELSE identify_trend(d, k)


\* ------------------------------------------------------------- input rows
\* The frame is the argument of backtest: its columns are drawn freely from
\* the rows below rather than recomputed from the closes.  (In main the
\* oscillator script's J column is 3K - 2D, see add_indicators.)
\* Rows of a frame produced by backup.py's add_indicators (close + 7 columns).
StackRow(kind, c) ==
    IF kind = "up" THEN
        [close |-> c, EMA8 |-> c - 1, EMA13 |-> c - 2, EMA21 |-> c - 3,
         EMA50 |-> c - 4, MA50 |-> c - 5, EMA200 |-> c + 1, MA200 |-> c + 1]
    ELSE IF kind = "down" THEN
        [close |-> c, EMA8 |-> c + 1, EMA13 |-> c + 2, EMA21 |-> c + 3,
         EMA50 |-> c + 4, MA50 |-> c + 5, EMA200 |-> c - 1, MA200 |-> c - 1]
    ELSE
        [close |-> c, EMA8 |-> c, EMA13 |-> c, EMA21 |-> c,
         EMA50 |-> c, MA50 |-> c, EMA200 |-> c, MA200 |-> c]

StackRows == {StackRow(kind, c) : kind \in {"up", "down"}, c \in Prices}
             \cup {StackRow("flat", 100)}

\* Near misses of the stack: one column of a stacked row moved by one (which
\* makes it equal to, or leaves it apart from, its neighbour) or undefined.
\* The close itself is always a finite price.
IndicatorCols == {"EMA8", "EMA13", "EMA21", "EMA50", "MA50", "EMA200", "MA200"}

Perturbed(r) ==
    {r} \cup {[r EXCEPT ![f] = r[f] + dv] : f \in IndicatorCols \cup {"close"}, dv \in {-1, 1}}
        \cup {[r EXCEPT ![f] = NaN] : f \in IndicatorCols}

NearStackRows == Perturbed(StackRow("up", 100)) \cup Perturbed(StackRow("down", 100))

\* Rows of a frame as binance_ma_crossover_notify.py reads them.
GateCols(gate, c) ==
    IF gate = "pass" THEN
        [close |-> c, EMA8 |-> c, EMA13 |-> c, EMA21 |-> c, EMA50 |-> c,
         MA50 |-> c - 1, MA200 |-> c + 1, EMA200 |-> c]
    ELSE
        [close |-> c, EMA8 |-> c, EMA13 |-> c, EMA21 |-> c, EMA50 |-> c,
         MA50 |-> c + 5, MA200 |-> c + 5, EMA200 |-> c + 5]

OscCols(sig) ==
    IF sig = "up" THEN
        [K |-> 1, D |-> 2, J |-> 3, RSI_5 |-> 70, RSI_13 |-> 60, RSI_21 |-> 50,
         WR_8 |-> -10, WR_13 |-> -20, WR_50 |-> -30, WR_200 |-> -40]
    ELSE IF sig = "down" THEN
        [K |-> 3, D |-> 2, J |-> 1, RSI_5 |-> 50, RSI_13 |-> 60, RSI_21 |-> 70,
         WR_8 |-> -40, WR_13 |-> -30, WR_50 |-> -20, WR_200 |-> -10]
    ELSE IF sig = "end" THEN
        [K |-> 1, D |-> 2, J |-> 3, RSI_5 |-> 70, RSI_13 |-> 60, RSI_21 |-> 50,
         WR_8 |-> -35, WR_13 |-> -30, WR_50 |-> -30, WR_200 |-> -40]
    ELSE
        [K |-> 2, D |-> 2, J |-> 2, RSI_5 |-> 50, RSI_13 |-> 50, RSI_21 |-> 50,
         WR_8 |-> -10, WR_13 |-> -50, WR_50 |-> -30, WR_200 |-> -40]

OscRow(gate, sig, c) ==
    LET g == GateCols(gate, c)
        o == OscCols(sig)
    IN [close |-> g.close, EMA8 |-> g.EMA8, EMA13 |-> g.EMA13, EMA21 |-> g.EMA21,
        EMA50 |-> g.EMA50, MA50 |-> g.MA50, MA200 |-> g.MA200, EMA200 |-> g.EMA200,
        K |-> o.K, D |-> o.D, J |-> o.J,
        RSI_5 |-> o.RSI_5, RSI_13 |-> o.RSI_13, RSI_21 |-> o.RSI_21,
        WR_8 |-> o.WR_8, WR_13 |-> o.WR_13, WR_50 |-> o.WR_50, WR_200 |-> o.WR_200]

OscRows == {OscRow("pass", sig, c) : sig \in {"up", "down"}, c \in Prices}
           \cup {OscRow("pass", "end", 100), OscRow("pass", "none", 100),
                 OscRow("fail", "up", 100)}

\* Oscillator rows around the borders of identify_trend's conditions: one
\* family of columns ranges over every ordering of a few values, ties and
\* undefined values included, while the other families are stacked.
WithCols(r, cols) == [f \in DOMAIN r |-> IF f \in DOMAIN cols THEN cols[f] ELSE r[f]]

WrGrid == [{"WR_8", "WR_13", "WR_50", "WR_200"} -> {-40, -30, -20, -10, NaN}]
KdjGrid == [{"K", "D", "J"} -> {1, 2, 3, NaN}]
RsiGrid == [{"RSI_5", "RSI_13", "RSI_21"} -> {50, 60, 70, NaN}]
\* the gate on two of its five key values and its three averages; the other
\* key values lie outside every range
GateGrid ==
    {g \in [{"close", "EMA8", "MA50", "MA200", "EMA200"} -> {99, 100, 101, NaN}] :
        g["close"] # NaN}
OffKeys == [EMA13 |-> 109, EMA21 |-> 109, EMA50 |-> 109]

NearOscRows ==
    {WithCols(OscRow("pass", sig, 100), g) : sig \in {"up", "down"}, g \in WrGrid}
    \cup {WithCols(OscRow("pass", sig, 100), g) :
             sig \in {"up", "down", "end"}, g \in KdjGrid \cup RsiGrid}
    \cup {WithCols(WithCols(OscRow("pass", sig, 100), OffKeys), g) :
             sig \in {"up", "end"}, g \in GateGrid}
    \cup {OscRow("fail", sig, 100) : sig \in {"up", "down", "end", "none"}}

\* The rows backtest can read.  The first window it classifies ends at bar
\* WARMUP; analyze_trend looks one bar back, identify_trend does not, and the
\* oscillator script reads close[i-1] only with a position open, hence i-1 >= WARMUP.
RowIdx(v, len) == (IF v = STACK THEN WARMUP - 1 ELSE WARMUP) .. (len - 1)

Lengths == {0} \cup ((WARMUP - 1) .. (WARMUP + MaxBars))

Frames(v, len) ==
    IF v = OSC THEN
        [RowIdx(v, len) -> OscRows]
        \cup (IF len = WARMUP + 1 THEN [RowIdx(v, len) -> NearOscRows] ELSE {})
    ELSE [RowIdx(v, len) -> StackRows]
         \cup (IF len = WARMUP + 1 THEN [RowIdx(v, len) -> NearStackRows] ELSE {})

\* ---------------------------------------------------- indicator columns
\* add_indicators on candles (close, high, low).  K/D/J, RSI and %R are held
\* in units of 1/OscScale; the candles of RawSeries are chosen so that every
\* quotient below is a whole number of units, which makes \div the division
\* the code performs.
\* 12 is divided by every high-low range of RawSeries (1 .. 4) and 8 * 8 by
\* the steps of K and D (alpha = 1/8) that follow the first defined rsv
OscScale == 12 * 8 * 8
\* a rise of the last close that the windows 50 and 200 and the spans' n + 1
\* (9, 14, 22, 51, 201) all divide
JUMP == 200 * 9 * 7 * 11 * 17 * 67

Col(s, f) == [j \in DOMAIN s |-> s[j][f]]
SetMax(S) == CHOOSE m \in S : \A y \in S : y <= m
SetMin(S) == CHOOSE m \in S : \A y \in S : y >= m
Neg(x) == IF x = NaN THEN NaN ELSE 0 - x

RECURSIVE SumOver(_, _, _)
SumOver(x, a, b) ==
    IF a > b THEN 0
    ELSE IF a = b THEN x[a]
    ELSE SumOver(x, a, (a + b) \div 2) + SumOver(x, (a + b) \div 2 + 1, b)

RECURSIVE Pow(_, _)
Pow(b, e) == IF e = 0 THEN 1 ELSE b * Pow(b, e - 1)

\* k * num / den in floats: 0/0 is NaN (num # 0 with den = 0 does not occur,
\* low <= close <= high); a whole quotient is taken first to keep the
\* product small
Frac(k, num, den) ==
    IF den = 0 THEN NaN
    ELSE IF num % den = 0 THEN k * (num \div den)
    ELSE (k * num) \div den

\* Series.rolling(window=w).max() / .min() / .mean() at bar t: the w bars
\* ending at t, undefined until w bars exist
RollingMax(x, w, t) ==
    IF t < w - 1 THEN NaN ELSE SetMax({x[j] : j \in (t - w + 1) .. t})
RollingMin(x, w, t) ==
    IF t < w - 1 THEN NaN ELSE SetMin({x[j] : j \in (t - w + 1) .. t})

RollingMean_lookahead(x, w, t) ==
    LET hi == IF t + 1 \in DOMAIN x THEN t + 1 ELSE t
    IN IF t < w - 1 THEN NaN ELSE SumOver(x, hi - w + 1, hi) \div w

RollingMean(x, w, t) ==
    IF t < w - 1 THEN NaN ELSE SumOver(x, t - w + 1, t) \div w

\* Series.ewm(alpha=an/ad, adjust=False).mean(): y[0] = x[0] and
\* y[t] = (1 - alpha) y[t-1] + alpha x[t].  An undefined x[t] repeats y[t-1]
\* and ages its weight by 1 - alpha; an undefined y[t-1] restarts at x[t].
Mix(weighted, cur, an, ad, gap) ==
    (Pow(ad - an, gap + 1) * weighted + an * Pow(ad, gap) * cur)
        \div (Pow(ad - an, gap + 1) + an * Pow(ad, gap))

EwmStep(prev, cur, an, ad) ==
    IF prev.weighted = NaN THEN [weighted |-> cur, gap |-> 0]
    ELSE IF cur = NaN THEN [weighted |-> prev.weighted, gap |-> prev.gap + 1]
    ELSE IF prev.weighted = cur THEN [weighted |-> cur, gap |-> 0]
    ELSE [weighted |-> Mix(prev.weighted, cur, an, ad, prev.gap), gap |-> 0]

\* the averages of bars a .. b after the average prev of bar a-1, and those
\* of bars 0 .. m-1 (bar t at position t+1 of the sequence)
RECURSIVE EwmRange(_, _, _, _, _, _)
EwmRange(prev, x, an, ad, a, b) ==
    IF a = b THEN <<EwmStep(prev, x[a], an, ad)>>
    ELSE LET mid == (a + b) \div 2
             left == EwmRange(prev, x, an, ad, a, mid)
         IN left \o EwmRange(left[Len(left)], x, an, ad, mid + 1, b)

EwmSeq(x, an, ad, m) ==
    LET first == [weighted |-> x[0], gap |-> 0]
    IN IF m = 1 THEN <<first>> ELSE <<first>> \o EwmRange(first, x, an, ad, 1, m - 1)

\* calculate_kdj: rsv = 100 * (close - low_min) / (high_max - low_min)
rsv(s, t) ==
    LET low_min == RollingMin(Col(s, "low"), 5, t)
        high_max == RollingMax(Col(s, "high"), 5, t)
    IN IF low_min = NaN \/ high_max = NaN THEN NaN
       ELSE Frac(100 * OscScale, s[t].close - low_min, high_max - low_min)

\* calculate_rsi: rs = avg_gain / avg_loss, rsi = 100 - 100 / (1 + rs), that
\* is 100 gain / (gain + loss); 100 for rs = inf, NaN for rs = 0/0
calculate_rsi(s, period, t) ==
    LET gain == [j \in DOMAIN s |->
                    IF j > 0 /\ s[j].close > s[j-1].close
                    THEN s[j].close - s[j-1].close ELSE 0]
        loss == [j \in DOMAIN s |->
                    IF j > 0 /\ s[j].close < s[j-1].close
                    THEN s[j-1].close - s[j].close ELSE 0]
        G == SumOver(gain, t - period + 1, t)
        L == SumOver(loss, t - period + 1, t)
    IN IF t < period - 1 THEN NaN
       ELSE IF L = 0 THEN (IF G = 0 THEN NaN ELSE 100 * OscScale)
       ELSE Frac(100 * OscScale, G, G + L)

\* calculate_wr: -100 * (highest_high - close) / (highest_high - lowest_low)
calculate_wr(s, period, t) ==
    LET highest_high == RollingMax(Col(s, "high"), period, t)
        lowest_low == RollingMin(Col(s, "low"), period, t)
    IN IF highest_high = NaN \/ lowest_low = NaN THEN NaN
       ELSE Neg(Frac(100 * OscScale, highest_high - s[t].close,
                     highest_high - lowest_low))

\* the rows of add_indicators(df) that backtest reads, df holding n candles
indicator_rows(v, s, n) ==
    LET close == Col(s, "close")
        e8 == EwmSeq(close, 2, 9, n)
        e13 == EwmSeq(close, 2, 14, n)
        e21 == EwmSeq(close, 2, 22, n)
        e50 == EwmSeq(close, 2, 51, n)
        e200 == EwmSeq(close, 2, 201, n)
        kseq == EwmSeq([j \in 0 .. (n - 1) |-> rsv(s, j)], 1, 8, n)
        dseq == EwmSeq([j \in 0 .. (n - 1) |-> kseq[j + 1].weighted], 1, 8, n)
        K(t) == kseq[t + 1].weighted
        D(t) == dseq[t + 1].weighted
    IN [t \in RowIdx(v, n) |->
          IF v = STACK THEN
              [close |-> close[t], EMA8 |-> e8[t + 1].weighted,
               EMA13 |-> e13[t + 1].weighted, EMA21 |-> e21[t + 1].weighted,
               EMA50 |-> e50[t + 1].weighted, EMA200 |-> e200[t + 1].weighted,
               MA50 |-> RollingMean(close, 50, t),
               MA200 |-> RollingMean(close, 200, t)]
          ELSE
              [close |-> close[t], EMA8 |-> e8[t + 1].weighted,
               EMA13 |-> e13[t + 1].weighted, EMA21 |-> e21[t + 1].weighted,
               EMA50 |-> e50[t + 1].weighted, EMA200 |-> e200[t + 1].weighted,
               MA50 |-> RollingMean(close, 50, t),
               MA200 |-> RollingMean(close, 200, t),
               K |-> K(t), D |-> D(t),
               J |-> IF K(t) = NaN \/ D(t) = NaN THEN NaN ELSE 3 * K(t) - 2 * D(t),
               RSI_5 |-> calculate_rsi(s, 5, t),
               RSI_13 |-> calculate_rsi(s, 13, t),
               RSI_21 |-> calculate_rsi(s, 21, t),
               WR_8 |-> calculate_wr(s, 8, t),
               WR_13 |-> calculate_wr(s, 13, t),
               WR_50 |-> calculate_wr(s, 50, t),
               WR_200 |-> calculate_wr(s, 200, t)]]

\* the same rows before add_indicators has run: no column is computed yet
uncomputed_rows(v, s, n) ==
    [t \in RowIdx(v, n) |->
        [f \in (IF v = STACK THEN IndicatorCols
                 ELSE IndicatorCols \cup {"K", "D", "J", "RSI_5", "RSI_13", "RSI_21",
                                          "WR_8", "WR_13", "WR_50", "WR_200"})
               \cup {"close"} |->
            IF f = "close" THEN s[t].close ELSE NaN]]

\* Candles: the closes are 100 throughout, except that the last close may
\* rise by JUMP; the bars of a pattern carry an upper wick a and a lower wick
\* b, every other bar has high = low = close.  A pattern is the set of the
\* bars that carry them, counted back from the last one: every bar, or one.
WickAll(n) == 0 .. (n - 1)
WickPatterns(n) == {WickAll(n)} \cup {{off} : off \in {0, 3, 6, 10, 30, 100}}
RawLengths == {WARMUP + 1, WARMUP + 3}

Candle(n, pat, a, b, jump, j) ==
    IF jump /\ j = n - 1 THEN
        [close |-> 100 + JUMP, high |-> 100 + JUMP, low |-> 100 + JUMP]
    ELSE IF (n - 1 - j) \in pat THEN
        [close |-> 100, high |-> 100 + a, low |-> 100 - b]
    ELSE [close |-> 100, high |-> 100, low |-> 100]

RawSeries(n) ==
    {[j \in 0 .. (n - 1) |-> Candle(n, pat, a, b, FALSE, j)] :
        pat \in WickPatterns(n), a \in 0 .. 2, b \in 0 .. 2}
    \cup {[j \in 0 .. (n - 1) |-> Candle(n, pat, a, b, TRUE, j)] :
             pat \in {WickAll(n), {0}, {3}}, a \in 0 .. 2, b \in 0 .. 2}

\* ------------------------------------------------------------ backtesting
Profit_unsigned(pos, entry, exit) == (exit - entry) * LEVERAGE

\* profit of a closed position
Profit(pos, entry, exit) ==
    (IF pos = UP THEN exit - entry ELSE entry - exit) * LEVERAGE

\* the dict appended to trades when the position held in s is closed
Trade(s, exit_index, exit_price) ==
    [entry_index |-> s.entry_index, exit_index |-> exit_index,
     position |-> s.position, entry_price |-> s.entry_price,
     exit_price |-> exit_price,
     profit |-> Profit(s.position, s.entry_price, exit_price)]

\* the locals before backtest has ever been called
NoCall ==
    [trades |-> <<>>, position |-> NONE, entry_price |-> 0, entry_index |-> 0,
     opened |-> 0]

backtest_entry_keep(old) ==
    [trades |-> old.trades, position |-> NONE, entry_price |-> 0, entry_index |-> 0,
     opened |-> 0]

\* locals of backtest at its first line; old holds whatever a previous call left
backtest_entry(old) ==
    [trades |-> <<>>, position |-> NONE, entry_price |-> 0, entry_index |-> 0,
     opened |-> 0]

OnStart_noclose(s, d, k, dir) ==
    IF s.position # dir THEN
        [trades |-> s.trades,
         position |-> dir, entry_price |-> d[k].close, entry_index |-> k,
         opened |-> s.opened + 1]
    ELSE s

OnStart_reordered(s, d, k, dir) ==
    IF s.position # dir THEN
        [trades |-> IF s.position # NONE
                    THEN Append(s.trades, Trade([s EXCEPT !.entry_index = k], k - 1, d[k-1].close))
                    ELSE s.trades,
         position |-> dir, entry_price |-> d[k].close, entry_index |-> k,
         opened |-> s.opened + 1]
    ELSE s

OnStart_exit_at_k(s, d, k, dir) ==
    IF s.position # dir THEN
        [trades |-> IF s.position # NONE
                    THEN Append(s.trades, Trade(s, k, d[k].close))
                    ELSE s.trades,
         position |-> dir, entry_price |-> d[k].close, entry_index |-> k,
         opened |-> s.opened + 1]
    ELSE s

\* branch "'start' in trend" at bar k with trend['start'] = dir
OnStart_reenter(s, d, k, dir) ==
    IF s.position # dir THEN
        [trades |-> IF s.position # NONE
                    THEN Append(s.trades, Trade(s, k - 1, d[k-1].close))
                    ELSE s.trades,
         position |-> dir, entry_price |-> d[k].close, entry_index |-> k,
         opened |-> s.opened + 1]
    ELSE [s EXCEPT !.entry_price = d[k].close, !.entry_index = k]

OnStart(s, d, k, dir) ==
    IF s.position # dir THEN
        [trades |-> IF s.position # NONE
                    THEN Append(s.trades, Trade(s, k - 1, d[k-1].close))
                    ELSE s.trades,
         position |-> dir, entry_price |-> d[k].close, entry_index |-> k,
         opened |-> s.opened + 1]
    ELSE s

OnNoStart_keep(s, d, k) ==
    IF s.position # NONE THEN
        [s EXCEPT !.trades = Append(s.trades, Trade(s, k, d[k].close))]
    ELSE s

\* branches "trend is None", "'end' in trend" and backup.py's else at bar k
OnNoStart(s, d, k) ==
    IF s.position # NONE THEN
        [s EXCEPT !.trades = Append(s.trades, Trade(s, k, d[k].close)),
                  !.position = NONE]
    ELSE s

ForceClose_entered_earlier(s, d, len) ==
    IF s.position # NONE /\ s.entry_index < len - 1 THEN
        [s EXCEPT !.trades = Append(s.trades, Trade(s, len - 1, d[len - 1].close))]
    ELSE s

\* after the loop: close whatever is still open at the last close
ForceClose(s, d, len) ==
    IF s.position # NONE THEN
        [s EXCEPT !.trades = Append(s.trades, Trade(s, len - 1, d[len - 1].close))]
    ELSE s

\* one iteration of "for i in range(200, len(df))"
BarStep(v, s, d, k) ==
    LET trend == Verdict(v, d, k)
    IN IF trend \in {UP, DOWN} THEN OnStart(s, d, k, trend) ELSE OnNoStart(s, d, k)

RECURSIVE Loop(_, _, _, _, _)
Loop(v, s, d, k, len) ==
    IF k >= len THEN s ELSE Loop(v, BarStep(v, s, d, k), d, k + 1, len)

\* backtest(df) as one call
backtest(v, d, len) ==
    ForceClose(Loop(v, backtest_entry(NoCall), d, WARMUP, len), d, len).trades


\* ------------------------------------------------------------------ main
Last(q) == q[Len(q)]

\* COINS and INTERVALS by position in their lists; INTERVALS is 4h, 6h, 12h
COINS == 1 .. NumCoins
INTERVALS == 1 .. NumIntervals
IntervalHours == <<4, 6, 12>>
NPairs == NumCoins * NumIntervals

\* the p-th pair (from 0) of "for symbol in COINS: for interval in INTERVALS"
PairAt(p) == <<(p \div NumIntervals) + 1, (p % NumIntervals) + 1>>

\* Rows of a fetched frame that main or backtest can read.
MainRowIdx(n) == (WARMUP - 2) .. (n - 1)
MainLengths == {WARMUP - 1, WARMUP, WARMUP + 2}

MainFrames(v, n) ==
    IF v = STACK THEN
        {[k \in MainRowIdx(n) |->
            IF t /\ k \in {WARMUP - 1, WARMUP} THEN StackRow("up", 100)
            ELSE StackRow("flat", IF k = n - 1 THEN 101 ELSE 100)] : t \in BOOLEAN}
    ELSE
        {[k \in MainRowIdx(n) |->
            IF k = n - 1 THEN OscRow(g, "none", 101)
            ELSE OscRow("pass", "up", 100)] : g \in {"pass", "fail"}}

\* What fetch_ohlcv_ccxt can do: raise, return None (oscillator script only),
\* or return a frame whose last candle is age hours old.
FetchResults(v) ==
    {[kind |-> "raise", len |-> 0, rows |-> <<>>, age |-> 0]}
    \cup (IF v = OSC THEN {[kind |-> "none", len |-> 0, rows |-> <<>>, age |-> 0]} ELSE {})
    \cup UNION {{[kind |-> "df", len |-> n, rows |-> d, age |-> a] :
                    d \in MainFrames(v, n), a \in {0, 94}} : n \in MainLengths}

\* where an exception is raised after the fetch, if anywhere
Faults == {"none", "indicators", "backtest", "format"}

\* add_indicators: the EMA/MA, RSI, %R, K and D columns are those of the frame;
\* J is derived from K and D (calculate_kdj).  With J = 3K - 2D neither
\* J > D > K nor K > D > J can hold, so identify_trend gives no start verdict
\* on a frame that went through add_indicators.
add_indicators(v, d) ==
    IF v = OSC THEN [k \in DOMAIN d |-> [d[k] EXCEPT !.J = 3 * d[k].K - 2 * d[k].D]]
    ELSE d

\* hours between df.index[k] and now
BarAge(f, itv, k) == f.age + IntervalHours[itv] * (f.len - 1 - k)

filter_trades_last_4_days(tr, f, itv) ==
    SelectSeq(tr, LAMBDA t : BarAge(f, itv, t.entry_index) <= 24 * DAYS)

RECURSIVE SumProfit(_)
SumProfit(tr) == IF tr = <<>> THEN 0 ELSE tr[1].profit + SumProfit(Tail(tr))

format_backtest_summary_ge0(sym, tr, f, itv) ==
    LET num_trades == Len(tr)
        wins == Cardinality({k \in DOMAIN tr : tr[k].profit >= 0})
    IN [symbol |-> sym, interval |-> itv,
        total_profit |-> SumProfit(tr),
        num_trades |-> num_trades, wins |-> wins, losses |-> num_trades - wins,
        win_rate |-> IF num_trades > 0 THEN <<wins * 100, num_trades>> ELSE <<0, 1>>,
        details |-> [k \in DOMAIN tr |->
                        [position |-> tr[k].position,
                         entry_age |-> BarAge(f, itv, tr[k].entry_index),
                         entry_price |-> tr[k].entry_price,
                         exit_age |-> BarAge(f, itv, tr[k].exit_index),
                         exit_price |-> tr[k].exit_price,
                         profit |-> tr[k].profit]]]

\* the figures format_backtest_summary renders; win_rate is a fraction <<num, den>>
format_backtest_summary(sym, tr, f, itv) ==
    LET num_trades == Len(tr)
        wins == Cardinality({k \in DOMAIN tr : tr[k].profit > 0})
    IN [symbol |-> sym, interval |-> itv,
        total_profit |-> SumProfit(tr),
        num_trades |-> num_trades, wins |-> wins, losses |-> num_trades - wins,
        win_rate |-> IF num_trades > 0 THEN <<wins * 100, num_trades>> ELSE <<0, 1>>,
        details |-> [k \in DOMAIN tr |->
                        [position |-> tr[k].position,
                         entry_age |-> BarAge(f, itv, tr[k].entry_index),
                         entry_price |-> tr[k].entry_price,
                         exit_age |-> BarAge(f, itv, tr[k].exit_index),
                         exit_price |-> tr[k].exit_price,
                         profit |-> tr[k].profit]]]

\* min(entry_times) as a timestamp relative to now (minus the greatest age)
EarliestEntry(tr, f, itv) ==
    LET ages == {BarAge(f, itv, tr[k].entry_index) : k \in DOMAIN tr}
    IN 0 - (CHOOSE a \in ages : \A b \in ages : b <= a)

ProcessPair_append_first(v, sym, itv, f, fault, entries) ==
    LET skip(stage, ran, n) ==
            [stage |-> stage, ran |-> ran, ntrades |-> n, appended |-> FALSE,
             report_entries |-> entries, eligible |-> FALSE, indicator |-> FALSE]
    IN IF f.kind = "raise" THEN skip("fetch_error", FALSE, 0)
       ELSE IF f.kind = "none" THEN skip(IF v = OSC THEN "no_series" ELSE "error", FALSE, 0)
       ELSE IF f.len < 200 THEN skip("too_short", FALSE, 0)
       ELSE IF fault = "indicators" THEN skip("error", FALSE, 0)
       ELSE
         LET d == add_indicators(v, f.rows) IN
         IF v = OSC /\ ~is_coin_eligible(d[f.len - 1]) THEN skip("ineligible", FALSE, 0)
         ELSE IF fault = "backtest" THEN [skip("error", TRUE, 0) EXCEPT !.eligible = (v = OSC)]
         ELSE
           LET tr == backtest(v, d, f.len)
               trades_recent == filter_trades_last_4_days(tr, f, itv)
           IN IF trades_recent = <<>>
              THEN [skip("no_recent", TRUE, Len(tr)) EXCEPT !.eligible = (v = OSC)]
              ELSE
                [stage |-> IF fault = "format" THEN "error" ELSE "reported",
                 ran |-> TRUE, ntrades |-> Len(tr), appended |-> TRUE,
                 report_entries |->
                    Append(entries, <<EarliestEntry(trades_recent, f, itv),
                                      format_backtest_summary(sym, trades_recent, f, itv)>>),
                 eligible |-> (v = OSC), indicator |-> (v = OSC)]

ProcessPair_short_warmup(v, sym, itv, f, fault, entries) ==
    LET skip(stage, ran, n) ==
            [stage |-> stage, ran |-> ran, ntrades |-> n, appended |-> FALSE,
             report_entries |-> entries, eligible |-> FALSE, indicator |-> FALSE]
    IN IF f.kind = "raise" THEN skip("fetch_error", FALSE, 0)
       ELSE IF f.kind = "none" THEN skip(IF v = OSC THEN "no_series" ELSE "error", FALSE, 0)
       ELSE IF f.len < 100 THEN skip("too_short", FALSE, 0)
       ELSE IF fault = "indicators" THEN skip("error", FALSE, 0)
       ELSE
         LET d == add_indicators(v, f.rows) IN
         IF v = OSC /\ ~is_coin_eligible(d[f.len - 1]) THEN skip("ineligible", FALSE, 0)
         ELSE IF fault = "backtest" THEN [skip("error", TRUE, 0) EXCEPT !.eligible = (v = OSC)]
         ELSE
           LET tr == backtest(v, d, f.len)
               trades_recent == filter_trades_last_4_days(tr, f, itv)
           IN IF trades_recent = <<>>
              THEN [skip("no_recent", TRUE, Len(tr)) EXCEPT !.eligible = (v = OSC)]
              ELSE IF fault = "format"
              THEN [skip("error", TRUE, Len(tr)) EXCEPT !.eligible = (v = OSC),
                                                         !.indicator = (v = OSC)]
              ELSE
                [stage |-> "reported", ran |-> TRUE, ntrades |-> Len(tr), appended |-> TRUE,
                 report_entries |->
                    Append(entries, <<EarliestEntry(trades_recent, f, itv),
                                      format_backtest_summary(sym, trades_recent, f, itv)>>),
                 eligible |-> (v = OSC), indicator |-> (v = OSC)]

\* the body of the try block for one (symbol, interval): how far it got
\* (stage), whether backtest was called (ran) and what it appended
ProcessPair(v, sym, itv, f, fault, entries) ==
    LET skip(stage, ran, n) ==
            [stage |-> stage, ran |-> ran, ntrades |-> n, appended |-> FALSE,
             report_entries |-> entries, eligible |-> FALSE, indicator |-> FALSE]
    IN IF f.kind = "raise" THEN skip("fetch_error", FALSE, 0)
       ELSE IF f.kind = "none" THEN skip(IF v = OSC THEN "no_series" ELSE "error", FALSE, 0)
       ELSE IF f.len < 200 THEN skip("too_short", FALSE, 0)
       ELSE IF fault = "indicators" THEN skip("error", FALSE, 0)
       ELSE
         LET d == add_indicators(v, f.rows) IN
         IF v = OSC /\ ~is_coin_eligible(d[f.len - 1]) THEN skip("ineligible", FALSE, 0)
         ELSE IF fault = "backtest" THEN [skip("error", TRUE, 0) EXCEPT !.eligible = (v = OSC)]
         ELSE
           LET tr == backtest(v, d, f.len)
               trades_recent == filter_trades_last_4_days(tr, f, itv)
           IN IF trades_recent = <<>>
              THEN [skip("no_recent", TRUE, Len(tr)) EXCEPT !.eligible = (v = OSC)]
              ELSE IF fault = "format"
              THEN [skip("error", TRUE, Len(tr)) EXCEPT !.eligible = (v = OSC),
                                                         !.indicator = (v = OSC)]
              ELSE
                [stage |-> "reported", ran |-> TRUE, ntrades |-> Len(tr), appended |-> TRUE,
                 report_entries |->
                    Append(entries, <<EarliestEntry(trades_recent, f, itv),
                                      format_backtest_summary(sym, trades_recent, f, itv)>>),
                 eligible |-> (v = OSC), indicator |-> (v = OSC)]

\* report_entries.sort(key=lambda x: x[0]): stable, ascending.  The entry at
\* position k moves behind every entry with a smaller key and every earlier
\* entry with the same key.
SortRank(q, k) ==
    Cardinality({j \in DOMAIN q : q[j][1] < q[k][1] \/ (q[j][1] = q[k][1] /\ j <= k)})

SortEntries(q) ==
    [r \in DOMAIN q |-> q[CHOOSE k \in DOMAIN q : SortRank(q, k) = r]]

\* ------------------------------------------------- state of one simulation
VARIABLES
    variant,        \* which script's backtest runs
    len,            \* len(df)
    df,             \* the frame handed to backtest (rows backtest can read)
    pc,             \* "call", "loop", "done"
    i,              \* loop variable of backtest
    position, entry_price, entry_index, trades,
    opened,         \* number of times a position was opened in this call
    run,            \* 1 for the first call of backtest on df, 2 for the second
    firstLog        \* the Trade Log the first call returned

\* ------------------------------------------------------- state of main()
VARIABLES
    mpc,            \* "idle", "pairs", "notify", "done"
    pairIdx,        \* number of (symbol, interval) pairs already attempted
    attempts,       \* what happened to each attempted pair, in order
    report_entries,
    eligible_coins, indicator_coins,
    sent,           \* the message handed to send_telegram_message
    last_pair       \* what was fetched for the pair attempted last and how far it got

btVars == <<variant, len, df, pc, i, position, entry_price, entry_index, trades,
            opened, run, firstLog>>
mainVars == <<mpc, pairIdx, attempts, report_entries, eligible_coins,
              indicator_coins, sent, last_pair>>

\* ------------------------------------- raw candles and the summary figures
VARIABLES
    series,         \* the candles handed to add_indicators; <<>> when the
                    \* frame is given with its columns
    summary,        \* what format_backtest_summary computed
    fpc             \* "idle", "format", "formatted"

auxVars == <<series, summary, fpc>>
vars == <<btVars, mainVars, auxVars>>

Locals ==
    [trades |-> trades, position |-> position, entry_price |-> entry_price,
     entry_index |-> entry_index, opened |-> opened]

SetLocals(s) ==
    /\ trades' = s.trades
    /\ position' = s.position
    /\ entry_price' = s.entry_price
    /\ entry_index' = s.entry_index
    /\ opened' = s.opened

\* before send_telegram_message is called / before any pair is attempted
NotSent == [text |-> NONE, messages |-> <<>>, eligible |-> {}, indicator |-> {}]
NoPair ==
    [symbol |-> 0, interval |-> 0, kind |-> NONE, len |-> 0, fault |-> "none",
     stage |-> NONE, ran |-> FALSE, ntrades |-> 0, appended |-> FALSE]

MainIdle ==
    /\ mpc = "idle" /\ pairIdx = 0 /\ attempts = <<>> /\ report_entries = <<>>
    /\ eligible_coins = {} /\ indicator_coins = {} /\ sent = NotSent
    /\ last_pair = NoPair

NoSummary == <<>>
AuxIdle == series = <<>> /\ summary = NoSummary /\ fpc = "idle"

Init ==
    /\ variant \in {STACK, OSC}
    /\ \/ /\ len \in Lengths
          /\ df \in Frames(variant, len)
          /\ series = <<>>
          /\ pc = "call"
       \/ /\ len \in RawLengths
          /\ series \in RawSeries(len)
          /\ df = uncomputed_rows(variant, series, len)
          /\ pc = "raw"
    /\ i = 0
    /\ trades = NoCall.trades /\ position = NoCall.position
    /\ entry_price = NoCall.entry_price /\ entry_index = NoCall.entry_index
    /\ opened = NoCall.opened
    /\ run = 1
    /\ firstLog = <<>>
    /\ MainIdle
    /\ summary = NoSummary /\ fpc = "idle"

\* df = add_indicators(df), before backtest(df) is called
Indicators ==
    /\ pc = "raw"
    /\ df' = indicator_rows(variant, series, len)
    /\ pc' = "call"
    /\ UNCHANGED <<variant, len, i, position, entry_price, entry_index, trades,
                   opened, run, firstLog, mainVars, auxVars>>

\* backtest(df) is entered: lines 90-93 (backup.py), 164-167
Call ==
    /\ pc = "call"
    /\ SetLocals(backtest_entry(Locals))
    /\ i' = WARMUP
    /\ pc' = "loop"
    /\ UNCHANGED <<variant, len, df, run, firstLog, mainVars, auxVars>>

\* a bar whose verdict carries 'start'
BarStart ==
    /\ pc = "loop" /\ i < len
    /\ Verdict(variant, df, i) \in {UP, DOWN}
    /\ SetLocals(BarStep(variant, Locals, df, i))
    /\ i' = i + 1
    /\ UNCHANGED <<variant, len, df, pc, run, firstLog, mainVars, auxVars>>

\* a bar with no verdict ({} in backup.py, None in the oscillator script)
BarNoSignal ==
    /\ pc = "loop" /\ i < len
    /\ Verdict(variant, df, i) = NONE
    /\ SetLocals(BarStep(variant, Locals, df, i))
    /\ i' = i + 1
    /\ UNCHANGED <<variant, len, df, pc, run, firstLog, mainVars, auxVars>>

\* a bar whose verdict is {'end': True}
BarEnd ==
    /\ pc = "loop" /\ i < len
    /\ Verdict(variant, df, i) = END
    /\ SetLocals(BarStep(variant, Locals, df, i))
    /\ i' = i + 1
    /\ UNCHANGED <<variant, len, df, pc, run, firstLog, mainVars, auxVars>>

\* the loop is exhausted: force-close and return trades
Return ==
    /\ pc = "loop" /\ i >= len
    /\ SetLocals(ForceClose(Locals, df, len))
    /\ pc' = "done"
    /\ UNCHANGED <<variant, len, df, i, run, firstLog, mainVars, auxVars>>

\* the pipeline is run a second time on the same frame
Rerun ==
    /\ pc = "done" /\ run = 1
    /\ firstLog' = trades
    /\ run' = 2
    /\ pc' = IF series = <<>> THEN "call" ELSE "raw"
    /\ UNCHANGED <<variant, len, df, i, position, entry_price, entry_index,
                   trades, opened, mainVars, auxVars>>

Next == Indicators \/ Call \/ BarStart \/ BarNoSignal \/ BarEnd \/ Return \/ Rerun

Spec == Init /\ [][Next]_vars


\* ------------------------------------------------------- main() as steps
InitMain ==
    /\ variant \in {STACK, OSC}
    /\ len = 0 /\ df = <<>> /\ pc = "idle" /\ i = 0
    /\ trades = NoCall.trades /\ position = NoCall.position
    /\ entry_price = NoCall.entry_price /\ entry_index = NoCall.entry_index
    /\ opened = NoCall.opened
    /\ run = 1 /\ firstLog = <<>>
    /\ mpc = "pairs" /\ pairIdx = 0 /\ attempts = <<>> /\ report_entries = <<>>
    /\ eligible_coins = {} /\ indicator_coins = {} /\ sent = NotSent
    /\ last_pair = NoPair
    /\ AuxIdle

\* one iteration of the nested loops, ending in the given stage
Pair(stage) ==
    /\ mpc = "pairs" /\ pairIdx < NPairs
    /\ \E f \in FetchResults(variant), fault \in Faults :
          LET sym == PairAt(pairIdx)[1]
              itv == PairAt(pairIdx)[2]
              r == ProcessPair(variant, sym, itv, f, fault, report_entries)
          IN /\ r.stage = stage
             /\ attempts' = Append(attempts, <<sym, itv>>)
             /\ report_entries' = r.report_entries
             /\ eligible_coins' = IF r.eligible THEN eligible_coins \cup {sym}
                                  ELSE eligible_coins
             /\ indicator_coins' = IF r.indicator THEN indicator_coins \cup {sym}
                                   ELSE indicator_coins
             /\ last_pair' = [symbol |-> sym, interval |-> itv, kind |-> f.kind,
                              len |-> f.len, fault |-> fault, stage |-> r.stage,
                              ran |-> r.ran, ntrades |-> r.ntrades,
                              appended |-> r.appended]
    /\ pairIdx' = pairIdx + 1
    /\ UNCHANGED <<btVars, auxVars, mpc, sent>>

PairFetchError == mpc = "pairs" /\ Pair("fetch_error")
PairNoSeries == mpc = "pairs" /\ Pair("no_series")
PairTooShort == mpc = "pairs" /\ Pair("too_short")
PairIneligible == mpc = "pairs" /\ Pair("ineligible")
PairError == mpc = "pairs" /\ Pair("error")
PairNoRecent == mpc = "pairs" /\ Pair("no_recent")
PairReported == mpc = "pairs" /\ Pair("reported")

\* after the loops: sort, build the message, send it
Notify ==
    /\ mpc = "pairs" /\ pairIdx >= NPairs
    /\ LET sorted == SortEntries(report_entries)
           all_messages == [k \in DOMAIN sorted |-> sorted[k][2]]
       IN /\ report_entries' = sorted
          /\ sent' = [text |-> IF all_messages # <<>> THEN "results" ELSE "no_results",
                      messages |-> all_messages,
                      eligible |-> IF variant = OSC THEN eligible_coins ELSE {},
                      indicator |-> IF variant = OSC THEN indicator_coins ELSE {}]
    /\ mpc' = "done"
    /\ UNCHANGED <<btVars, auxVars, pairIdx, attempts, eligible_coins, indicator_coins, last_pair>>

NextMain ==
    \/ PairFetchError \/ PairNoSeries \/ PairTooShort \/ PairIneligible
    \/ PairError \/ PairNoRecent \/ PairReported \/ Notify

SpecMain == InitMain /\ [][NextMain]_vars

\* main runs to completion: no step of it waits on anything
FairSpecMain == SpecMain /\ WF_vars(NextMain)

\* ------------------------------------ format_backtest_summary on its own
\* a list of trades as filter_trades_last_4_days hands it over: the k-th
\* entered at 100 and left at 99, 100 or 101 one bar later
SummaryFetch == [kind |-> "df", len |-> WARMUP + 2 * MaxTrades, rows |-> <<>>, age |-> 0]

SampleTrade(k, pos, exit_price) ==
    Trade([position |-> pos, entry_price |-> 100, entry_index |-> WARMUP + 2 * (k - 1)],
          WARMUP + 2 * (k - 1) + 1, exit_price)

TradeLists ==
    UNION {{[k \in 1 .. n |-> SampleTrade(k, c[k][1], c[k][2])] :
               c \in [1 .. n -> {UP, DOWN} \X {99, 100, 101}]} : n \in 0 .. MaxTrades}

InitSummary ==
    /\ variant \in {STACK, OSC}
    /\ len = 0 /\ df = <<>> /\ pc = "idle" /\ i = 0
    /\ trades \in TradeLists
    /\ position = NoCall.position
    /\ entry_price = NoCall.entry_price /\ entry_index = NoCall.entry_index
    /\ opened = NoCall.opened
    /\ run = 1 /\ firstLog = <<>>
    /\ MainIdle
    /\ series = <<>> /\ summary = NoSummary /\ fpc = "format"

Summarize ==
    /\ fpc = "format"
    /\ summary' = format_backtest_summary(1, trades, SummaryFetch, 1)
    /\ fpc' = "formatted"
    /\ UNCHANGED <<btVars, mainVars, series>>

NextSummary == Summarize

SpecSummary == InitSummary /\ [][NextSummary]_vars

\* ------------------------------------------------- properties of backtest
Sign(dir) == IF dir = UP THEN 1 ELSE -1
InLoopBody == pc = "loop" /\ i < len

\* C1: after every bar at most one position is open, and once backtest has
\* returned the Trade Log holds exactly one trade per position opened.
C1_OnePositionOneTrade ==
    /\ position \in {NONE, UP, DOWN}
    /\ pc = "loop" => opened - Len(trades) = (IF position # NONE THEN 1 ELSE 0)
    /\ pc = "done" => Len(trades) = opened

C1_Witness ==
    /\ pc = "done" /\ opened = 3 /\ Len(trades) = 3
    /\ trades[1].exit_index = trades[2].entry_index - 1
    /\ trades[3].exit_index = len - 1

\* C2: a position still open when the loop ends yields exactly one trade with
\* exit_index = len-1; it is the last trade and exits at the last close,
\* whatever the verdict at the last bar was.
C2_ForceCloseAtLastBar ==
    (pc = "done" /\ len > WARMUP /\ position # NONE) =>
        /\ trades # <<>>
        /\ Last(trades).exit_index = len - 1
        /\ Last(trades).exit_price = df[len - 1].close
        /\ Last(trades).entry_index = entry_index
        /\ Cardinality({k \in DOMAIN trades : trades[k].exit_index = len - 1}) = 1

C2_Witness ==
    /\ pc = "done" /\ position # NONE /\ entry_index = len - 1
    /\ Verdict(variant, df, len - 1) \in {UP, DOWN}
    /\ Len(trades) = 2
    /\ Last(trades).exit_index = len - 1

\* C3: every trade exits no earlier than it enters, and the log is increasing
\* in entry_index and in exit_index.
C3_MonotoneLog ==
    /\ \A k \in DOMAIN trades : trades[k].exit_index >= trades[k].entry_index
    /\ \A k \in 1 .. (Len(trades) - 1) :
          /\ trades[k].entry_index < trades[k+1].entry_index
          /\ trades[k].exit_index < trades[k+1].exit_index

C3_Witness ==
    /\ pc = "done" /\ Len(trades) >= 2
    /\ trades[1].exit_index = trades[1].entry_index
    /\ trades[2].entry_index = trades[1].exit_index + 1
    /\ trades[1].position # trades[2].position

\* C4: a start verdict that differs from the state closes the open position,
\* if any, with one trade exiting at bar i-1 at close[i-1], and opens the new
\* position at bar i at close[i]; from Flat no trade is appended.
C4_StartVerdict ==
    [][(InLoopBody /\ Verdict(variant, df, i) \in {UP, DOWN}
                   /\ position # Verdict(variant, df, i)) =>
          /\ position' = Verdict(variant, df, i)
          /\ entry_index' = i
          /\ entry_price' = df[i].close
          /\ position = NONE => trades' = trades
          /\ position # NONE =>
                /\ Len(trades') = Len(trades) + 1
                /\ SubSeq(trades', 1, Len(trades)) = trades
                /\ Last(trades').exit_index = i - 1
                /\ Last(trades').exit_price = df[i - 1].close
                /\ Last(trades').entry_index = entry_index
                /\ Last(trades').entry_price = entry_price
                /\ Last(trades').position = position]_vars

C4_Witness ==
    /\ pc = "loop" /\ position # NONE /\ entry_index = i - 1
    /\ trades # <<>>
    /\ Last(trades).exit_index = i - 2
    /\ Last(trades).position # position
    /\ Last(trades).exit_price = df[i - 2].close

\* C5: a bar with verdict TrendEnd or None closes the open position with one
\* trade exiting at bar i at close[i] and leaves the state Flat; from Flat it
\* changes neither the state nor the log.
C5_NoStartVerdict ==
    [][(InLoopBody /\ Verdict(variant, df, i) \in {NONE, END}) =>
          /\ position' = NONE
          /\ position = NONE => UNCHANGED <<trades, entry_index, entry_price>>
          /\ position # NONE =>
                /\ Len(trades') = Len(trades) + 1
                /\ SubSeq(trades', 1, Len(trades)) = trades
                /\ Last(trades').exit_index = i
                /\ Last(trades').exit_price = df[i].close
                /\ Last(trades').entry_index = entry_index
                /\ Last(trades').entry_price = entry_price
                /\ Last(trades').position = position]_vars

C5_Witness ==
    /\ pc = "loop" /\ variant = OSC /\ position = NONE /\ Len(trades) = 2
    /\ Verdict(variant, df, trades[1].exit_index) = END
    /\ Verdict(variant, df, trades[2].exit_index) = NONE
    /\ trades[2].exit_index = i - 1

\* C6: every trade has profit = (exit_price - entry_price) * sign * LEVERAGE
\* with the prices being the closes at its entry and exit bars; with leverage
\* 10 a Long 100 -> 101 earns 10 and a Short 100 -> 101 earns -10.
C6_Profit ==
    \A k \in DOMAIN trades :
        LET t == trades[k] IN
          /\ t.entry_price = df[t.entry_index].close
          /\ t.exit_price = df[t.exit_index].close
          /\ t.profit = (t.exit_price - t.entry_price) * Sign(t.position) * LEVERAGE
          /\ (t.entry_price = 100 /\ t.exit_price = 101 /\ t.position = UP) => t.profit = 10
          /\ (t.entry_price = 100 /\ t.exit_price = 101 /\ t.position = DOWN) => t.profit = -10

C6_Witness ==
    /\ pc = "done"
    /\ \E k \in DOMAIN trades :
          /\ trades[k].position = UP /\ trades[k].entry_price = 100
          /\ trades[k].exit_price = 101 /\ trades[k].profit = 10
    /\ \E k \in DOMAIN trades :
          /\ trades[k].position = DOWN /\ trades[k].entry_price = 100
          /\ trades[k].exit_price = 101 /\ trades[k].profit = -10


\* C9: a second run of the pipeline on the same frame returns the same Trade
\* Log; nothing the first call left behind (position, entry, log) is read.
C9_SameLogTwice == (pc = "done" /\ run = 2) => trades = firstLog

C9_Witness ==
    /\ pc = "done" /\ run = 2 /\ Len(firstLog) >= 2 /\ trades = firstLog
    /\ position # NONE

\* C10: analyze_trend answers Uptrend exactly when the stack EMA200 > close >
\* EMA8 > EMA13 > EMA21 > EMA50 > MA50, close < MA200 holds at the bar and at
\* the bar before, Downtrend exactly when the reversed stack holds at both,
\* and nothing otherwise; an open position was therefore entered on the
\* second of two consecutive stacked bars.
C10_Defined(r) == \A f \in IndicatorCols \cup {"close"} : r[f] # NaN
C10_Chain(r) == <<r.EMA200, r.close, r.EMA8, r.EMA13, r.EMA21, r.EMA50, r.MA50>>
C10_UpAt(r) ==
    /\ C10_Defined(r)
    /\ \A j \in 1..6 : C10_Chain(r)[j] > C10_Chain(r)[j+1]
    /\ r.close < r.MA200
C10_DownAt(r) ==
    /\ C10_Defined(r)
    /\ \A j \in 1..6 : C10_Chain(r)[j] < C10_Chain(r)[j+1]
    /\ r.close > r.MA200

C10_StackRule ==
    variant = STACK =>
      /\ \A k \in WARMUP .. (len - 1) :
            /\ analyze_trend(df, k) = UP <=> (C10_UpAt(df[k]) /\ C10_UpAt(df[k-1]))
            /\ analyze_trend(df, k) = DOWN <=> (C10_DownAt(df[k]) /\ C10_DownAt(df[k-1]))
            /\ analyze_trend(df, k) \in {UP, DOWN, NONE}
      /\ (pc \in {"loop", "done"} /\ position = UP) =>
            C10_UpAt(df[entry_index]) /\ C10_UpAt(df[entry_index - 1])
      /\ (pc \in {"loop", "done"} /\ position = DOWN) =>
            C10_DownAt(df[entry_index]) /\ C10_DownAt(df[entry_index - 1])

C10_Witness ==
    /\ variant = STACK /\ pc = "loop" /\ i = WARMUP + 2
    /\ position = UP /\ entry_index = WARMUP + 1
    /\ C10_UpAt(df[WARMUP]) /\ ~C10_UpAt(df[WARMUP - 1])
    /\ analyze_trend(df, WARMUP) = NONE


\* ------------------------------------------ properties of identify_trend
\* the bar the loop of the oscillator script has just classified
OscBars == IF variant = OSC /\ pc = "loop" /\ i > WARMUP THEN {i - 1} ELSE {}
AllDefined(r, cols) == \A f \in cols : r[f] # NaN

KdjRsiUpAt(r) ==
    /\ AllDefined(r, {"K", "D", "J", "RSI_5", "RSI_13", "RSI_21"})
    /\ r.J > r.D /\ r.D > r.K /\ r.RSI_5 > r.RSI_13 /\ r.RSI_13 > r.RSI_21
KdjRsiDownAt(r) ==
    /\ AllDefined(r, {"K", "D", "J", "RSI_5", "RSI_13", "RSI_21"})
    /\ r.J < r.D /\ r.D < r.K /\ r.RSI_5 < r.RSI_13 /\ r.RSI_13 < r.RSI_21
WrDefined(r) == AllDefined(r, {"WR_8", "WR_13", "WR_50", "WR_200"})

C12_GateForcesNone ==
    /\ \A k \in OscBars : ~is_coin_eligible(df[k]) => identify_trend(df, k) = NONE
    /\ (variant = OSC /\ pc \in {"loop", "done"}) =>
          /\ position # NONE => is_coin_eligible(df[entry_index])
          /\ \A n \in DOMAIN trades : is_coin_eligible(df[trades[n].entry_index])

\* a Long entered at bar 200 meets a bar with the full Uptrend ordering but a
\* failing gate: it is closed there, and nothing is opened
C12_Witness ==
    /\ variant = OSC /\ pc = "loop" /\ i = WARMUP + 2
    /\ LET r == df[WARMUP + 1] IN
          ~is_coin_eligible(r) /\ kdj_up(r) /\ rsi_up(r) /\ wr_up(r)
    /\ position = NONE /\ opened = 1 /\ Len(trades) = 1
    /\ trades[1].position = UP /\ trades[1].exit_index = WARMUP + 1

\* C13: a classifier that reads an undefined indicator value at the bar it
\* classifies (backup.py: also at the bar before) answers None, and
\* is_coin_eligible does not pass when one of the averages it reads is undefined.
OscGateCols == {"EMA8", "EMA13", "EMA21", "EMA50", "MA50", "MA200", "EMA200"}
OscSignalCols ==
    {"K", "D", "J", "RSI_5", "RSI_13", "RSI_21", "WR_8", "WR_13", "WR_50", "WR_200"}

C13_UndefinedForcesNone ==
    \A k \in WARMUP .. (len - 1) :
        /\ (variant = STACK /\ ~(AllDefined(df[k], IndicatorCols)
                                   /\ AllDefined(df[k-1], IndicatorCols)))
              => analyze_trend(df, k) = NONE
        /\ variant = OSC =>
              /\ ~AllDefined(df[k], OscGateCols \cup OscSignalCols)
                    => identify_trend(df, k) = NONE
              /\ ~AllDefined(df[k], OscGateCols) => ~is_coin_eligible(df[k])

\* C20: the squeeze (WR_8 and WR_13 both inside [min(WR_50, WR_200),
\* max(WR_50, WR_200)]) never holds together with the Williams %R ordering of
\* Uptrend or of Downtrend, so with the gate passed a full Uptrend (Downtrend)
\* ordering is always answered Uptrend (Downtrend).
C20_SqueezeExcludesStart ==
    \A k \in OscBars :
        LET r == df[k] IN
          /\ ~(wr_8_13_between(r) /\ wr_up(r))
          /\ ~(wr_8_13_between(r) /\ wr_down(r))
          /\ (is_coin_eligible(r) /\ kdj_up(r) /\ rsi_up(r) /\ wr_up(r))
                => identify_trend(df, k) = UP
          /\ (is_coin_eligible(r) /\ kdj_down(r) /\ rsi_down(r) /\ wr_down(r))
                => identify_trend(df, k) = DOWN

\* a Downtrend bar with WR_13 one step outside the squeeze is followed by a
\* squeeze bar: the first opens a Short, the second closes it
C20_Witness ==
    /\ variant = OSC /\ pc = "loop" /\ i = WARMUP + 2
    /\ wr_down(df[WARMUP]) /\ ~wr_8_13_between(df[WARMUP])
    /\ identify_trend(df, WARMUP) = DOWN
    /\ wr_8_13_between(df[WARMUP + 1]) /\ identify_trend(df, WARMUP + 1) = END
    /\ Len(trades) = 1 /\ trades[1].position = DOWN
    /\ trades[1].entry_index = WARMUP /\ trades[1].exit_index = WARMUP + 1

\* ------------------------------------------- position and log, continued
\* first bar of the maximal run of bars with the verdict of bar k that ends at k
RunStart(k) ==
    CHOOSE j \in WARMUP .. k :
        /\ \A n \in j .. k : Verdict(variant, df, n) = Verdict(variant, df, k)
        /\ j > WARMUP => Verdict(variant, df, j - 1) # Verdict(variant, df, k)

\* C18: once bar i-1 >= 200 has been processed the position is Long iff its
\* verdict was Uptrend, Short iff Downtrend and Flat otherwise, and the entry
\* index of an open position is the first bar of the maximal run of that
\* start verdict ending at the bar.
C18_PositionFollowsVerdict ==
    (pc = "loop" /\ i > WARMUP) =>
        LET t == Verdict(variant, df, i - 1) IN
          /\ position = UP <=> t = UP
          /\ position = DOWN <=> t = DOWN
          /\ position = NONE <=> t \in {NONE, END}
          /\ position # NONE =>
                /\ entry_index = RunStart(i - 1)
                /\ entry_price = df[RunStart(i - 1)].close

\* a Short held over three bars of Downtrend that followed an Uptrend bar
C18_Witness ==
    /\ pc = "loop" /\ i = WARMUP + 4 /\ position = DOWN
    /\ entry_index = WARMUP + 1 /\ RunStart(i - 1) = WARMUP + 1
    /\ Verdict(variant, df, WARMUP) = UP
    /\ Len(trades) = 1

\* C19: adjacent trades of the log never share a bar: the exit index of a
\* trade is strictly below the entry index of the next one, a flip closing
\* at bar i-1 and entering at bar i.
C19_NoOverlap ==
    \A n \in 1 .. (Len(trades) - 1) :
        /\ trades[n].exit_index < trades[n+1].entry_index
        /\ trades[n].position # NONE

\* a returned log with a flip (exit at i-1, entry at i) followed by a close
\* and a later re-entry
C19_Witness ==
    /\ pc = "done" /\ Len(trades) = 3
    /\ trades[1].position # trades[2].position
    /\ trades[2].entry_index = trades[1].exit_index + 1
    /\ trades[3].entry_index = trades[2].exit_index + 1
    /\ trades[2].exit_index = trades[2].entry_index + 1
    /\ Verdict(variant, df, trades[2].exit_index) \in {NONE, END}

\* C21: a bar whose start verdict is the direction of the open position
\* changes nothing but the loop index: no trade is appended, and position,
\* entry_index and entry_price stay as they are (the position is not entered
\* again at the close of this bar).
C21_SameDirectionNoChange ==
    [][(InLoopBody /\ position \in {UP, DOWN}
                   /\ Verdict(variant, df, i) = position) =>
          /\ trades' = trades
          /\ position' = position
          /\ entry_index' = entry_index
          /\ entry_price' = entry_price
          /\ opened' = opened
          /\ i' = i + 1 /\ pc' = pc]_vars

\* a Long entered at bar 200 has passed a second Uptrend bar that closed at
\* another price: it is still the position entered at bar 200
C21_Witness ==
    /\ pc = "loop" /\ i = WARMUP + 2 /\ position = UP
    /\ Verdict(variant, df, WARMUP) = UP /\ Verdict(variant, df, WARMUP + 1) = UP
    /\ df[WARMUP + 1].close # df[WARMUP].close
    /\ entry_index = WARMUP /\ entry_price = df[WARMUP].close
    /\ trades = <<>> /\ opened = 1

\* ------------------------------------------------ properties of the summary
RECURSIVE TotalUpTo(_, _)
TotalUpTo(q, n) == IF n = 0 THEN 0 ELSE TotalUpTo(q, n - 1) + q[n].profit

\* C16: the summary of a list of trades has count = length of the list, wins =
\* trades with profit > 0, losses = count - wins (a zero-profit trade is a
\* loss), total profit = sum of the profits, and a win rate (in percent) equal
\* to wins/count, which is 0 for the empty list.
C16_Summary ==
    fpc = "formatted" =>
        LET n == Len(trades)
            w == Cardinality({k \in DOMAIN trades : trades[k].profit > 0})
            rate == summary.win_rate
        IN /\ summary.num_trades = n
           /\ summary.wins = w
           /\ summary.losses = n - w
           /\ summary.losses = Cardinality({k \in DOMAIN trades : trades[k].profit =< 0})
           /\ summary.total_profit = TotalUpTo(trades, n)
           /\ rate[2] > 0
           /\ n = 0 => rate[1] = 0
           /\ n > 0 => rate[1] * n = 100 * w * rate[2]

\* one win, one loss and one trade with profit 0: 1 win, 2 losses
C16_Witness ==
    /\ fpc = "formatted" /\ Len(trades) = 3
    /\ \E k \in DOMAIN trades : trades[k].profit = 0
    /\ \E k \in DOMAIN trades : trades[k].profit > 0
    /\ \E k \in DOMAIN trades : trades[k].profit < 0
    /\ summary.wins = 1 /\ summary.losses = 2 /\ summary.total_profit = 0

\* ------------------------------------- properties of the indicator columns
Computed == series # <<>> /\ pc \in {"call", "loop", "done"}
FlatCloses == \A j \in DOMAIN series : series[j].close = series[0].close

Prefix(d, m) == [j \in {x \in DOMAIN d : x < m} |-> d[j]]

\* C15: the indicator columns at bar k computed over all candles equal those
\* computed over candles 0..k alone, the verdict at k read from the slice
\* df[:k+1] is the same, and every trade the whole run closed at or before k
\* is in the log of the run on df[:k+1].  The columns are compared as
\* add_indicators hands them to backtest and again when backtest returns.
C15_Causal ==
    /\ (Computed /\ pc \in {"call", "done"}) =>
          \A k \in RowIdx(variant, len) :
              LET alone == indicator_rows(variant, Prefix(series, k + 1), k + 1)
              IN /\ alone[k] = df[k]
                 /\ k >= WARMUP => Verdict(variant, alone, k) = Verdict(variant, df, k)
    /\ pc = "done" =>
          \A k \in WARMUP .. (len - 1) :
              LET sliced == Prefix(df, k + 1)
                  pre == backtest(variant, sliced, k + 1)
              IN /\ \A j \in WARMUP .. k :
                        Verdict(variant, sliced, j) = Verdict(variant, df, j)
                 /\ \A m \in DOMAIN trades :
                        trades[m].exit_index <= k =>
                            m \in DOMAIN pre /\ pre[m] = trades[m]

\* the last candle closes far above the others: the averages of the bar
\* before it are still those of flat closes, its own are not
C15_Witness ==
    /\ Computed /\ pc = "done" /\ len = WARMUP + 3
    /\ series[len - 1].close > series[len - 2].close
    /\ df[len - 2].MA50 = 100 /\ df[len - 2].EMA8 = 100
    /\ df[len - 1].MA50 > 100 /\ df[len - 1].EMA8 > df[len - 1].MA50
    /\ indicator_rows(variant, Prefix(series, len - 1), len - 1)[len - 2] = df[len - 2]

\* the denominators of calculate_kdj / calculate_wr and of calculate_rsi at
\* bar t: the high-low range and the summed losses of the last period bars
RangeOver(s, period, t) ==
    RollingMax(Col(s, "high"), period, t) - RollingMin(Col(s, "low"), period, t)
LossOver(s, period, t) ==
    SumOver([j \in DOMAIN s |->
                IF j > 0 /\ s[j].close < s[j-1].close
                THEN s[j-1].close - s[j].close ELSE 0], t - period + 1, t)

\* C17 as stated: at a bar where the high-low range of the lookback or the
\* average loss is zero, the K, D, J, Williams %R and RSI that add_indicators
\* stores are defined numbers all the same, so the classifier never reads an
\* undefined one.
C17_GuardedDenominators ==
    (Computed /\ variant = OSC) =>
        \A k \in RowIdx(variant, len) :
            /\ RangeOver(series, 5, k) = 0 =>
                  df[k].K # NaN /\ df[k].D # NaN /\ df[k].J # NaN
            /\ LossOver(series, 5, k) = 0 => df[k].RSI_5 # NaN
            /\ LossOver(series, 13, k) = 0 => df[k].RSI_13 # NaN
            /\ LossOver(series, 21, k) = 0 => df[k].RSI_21 # NaN
            /\ RangeOver(series, 8, k) = 0 => df[k].WR_8 # NaN
            /\ RangeOver(series, 13, k) = 0 => df[k].WR_13 # NaN
            /\ RangeOver(series, 50, k) = 0 => df[k].WR_50 # NaN
            /\ RangeOver(series, 200, k) = 0 => df[k].WR_200 # NaN

\* ----------------------------------------------------- properties of main
\* the pair attempted in this step got no further than a failure: the fetch
\* raised or returned no series, the series is too short, or an exception
\* was raised on the way
FailedInput(lp) ==
    \/ lp.kind \in {"raise", "none"}
    \/ lp.len < WARMUP
    \/ lp.fault # "none"

\* C7: a fetched series shorter than 200 bars is skipped before add_indicators
\* and backtest and reports nothing; backtest on a series of at most 200 bars
\* classifies no bar and returns an empty log.
C7_ShortSeriesSkipped ==
    [][pairIdx' = pairIdx + 1 =>
          /\ (last_pair'.kind = "df" /\ last_pair'.len < WARMUP) =>
                /\ last_pair'.stage = "too_short"
                /\ ~last_pair'.ran
                /\ report_entries' = report_entries
          /\ (last_pair'.kind = "df" /\ last_pair'.len <= WARMUP /\ last_pair'.ran) =>
                /\ last_pair'.ntrades = 0
                /\ report_entries' = report_entries
          /\ \A n \in MainLengths : \A d \in MainFrames(variant, n) :
                n <= WARMUP => backtest(variant, add_indicators(variant, d), n) = <<>>]_vars

C7_Witness ==
    /\ pairIdx > 1
    /\ last_pair.kind = "df" /\ last_pair.len = WARMUP - 1
    /\ last_pair.stage = "too_short" /\ ~last_pair.ran
    /\ Len(report_entries) = pairIdx - 1

\* C8: whatever fails, every pair of COINS x INTERVALS is attempted once and in
\* order; a failing pair appends nothing and no step alters the entries that
\* are already there; main always reaches the notification.
C8_FailuresAreLocal ==
    /\ [](attempts = [p \in 1 .. pairIdx |-> PairAt(p - 1)])
    /\ [](mpc = "done" => (pairIdx = NPairs /\ sent.text \in {"results", "no_results"}))
    /\ [][pairIdx' = pairIdx + 1 =>
             /\ FailedInput(last_pair') => report_entries' = report_entries
             /\ Len(report_entries') <= Len(report_entries) + 1
             /\ SubSeq(report_entries', 1, Len(report_entries)) = report_entries]_vars
    /\ <>(mpc = "done")

C8_Witness ==
    /\ mpc = "done" /\ Len(attempts) = NPairs
    /\ last_pair.kind = "raise"
    /\ Len(report_entries) = NPairs - 2
    /\ sent.text = "results"

=============================================================================
